---- MODULE Spec2Model ----
(***************************************************************************)
(* fCAT ortholog search driver (fcat/searchOrtho.py): the run state        *)
(* decision, the job builder, the search worker pool, the three            *)
(* aggregation passes and the archive/cleanup step, over a model of the    *)
(* query's output tree  <outDir>/fcatOutput/<coreSet>/<queryID>; and the   *)
(* cutoff program (fcatpy/calcCutoff.py): its job builder, its scoring     *)
(* jobs and its cutoff jobs, over the core set's fas_dir directories.      *)
(***************************************************************************)
EXTENDS Integers, Sequences, FiniteSets, TLC

\* ---------------------------------------------------------------- bounds
MaxRuns == 2        \* invocations of searchOrtho in one behaviour
MaxPrefLen == 2     \* length of the reference species preference list
MaxToolFail == 1    \* external aggregation tools that exit non-zero
MaxSeqs == 2        \* member sequences of one species in one core group
MaxCpus == 3        \* processors of the machine
MaxNameLen == 5     \* characters of the query file's name
MaxScore == 1       \* the scores of a score table are 0..MaxScore

Groups == {"g1", "g2"}
Species == {"A", "B"}
Tools == {"fdogFAS", "fdogFASall", "annoFAS", "calcFAS"}
TableNames == {"mode23", "mode1", "length", "domain", "mode4"}
Approaches == {"other", "mode1"}

\* ------------------------------------------------------------ file system
\* A file: whether it exists, and its rows.
NoFile == [ex |-> FALSE, rows |-> {}]
File(rows) == [ex |-> TRUE, rows |-> rows]

EmptyMap == [g \in {} |-> "A"]
NoMap == [ex |-> FALSE, map |-> EmptyMap]

\* fdogOutput/<refspec>/<group>: "none" no directory, "dir" a directory
\* without <group>.extended.fa, "ok" a directory with <group>.extended.fa
\* and <group>.phyloprofile.
NoRaw == [r \in Species |-> [g \in Groups |-> "none"]]

\* The directory fdogOutput (and the content of fdogOutput.tar.gz):
\* raw per-job results, <refspec>.extended.fa (merged), <refspec>.phyloprofile
\* (refPP), <queryID>_all.extended.fa (allFa), <queryID>_all.phyloprofile
\* (allPP) and <queryID>_all_forward.domains (allDom), the sequences of
\* <queryID>_all.extended.fa in the order written (allSeq); and the result
\* directories <refspec>/<group> in the order of their creation (order).
\* os.listdir gives the entries of a directory in an order the file system
\* chooses; it is taken to be the order of creation, as file systems
\* without sorted directories give it.
NoDir ==
  [ex |-> FALSE, raw |-> NoRaw, order |-> <<>>,
   merged |-> [r \in Species |-> NoFile], refPP |-> [r \in Species |-> NoFile],
   allFa |-> NoFile, allPP |-> NoFile, allDom |-> NoFile, allSeq |-> <<>>]

\* The query's output tree fcatOut, absent.
EmptyFs ==
  [tree |-> FALSE, fdog |-> NoDir, archive |-> NoDir, ppDir |-> FALSE,
   named |-> {}, tables |-> [t \in TableNames |-> NoFile],
   refspecTxt |-> NoMap, ignoredTxt |-> NoFile, missingTxt |-> NoFile,
   tmp |-> FALSE]

rmtree(f) == EmptyFs

RefDirs(d) == {r \in Species : \E g \in Groups : d.raw[r][g] # "none"}

MinOf(S) == CHOOSE i \in S : \A j \in S : i <= j

\* The place of group g in the nested loops  for refSpec in os.listdir(
\* fdogOutDir): for groupID in os.listdir(refDir)  (0: no result directory):
\* the reference species in the order of their first result directory, the
\* groups of one reference species in the order of theirs.
FirstAt(order, r) == MinOf({i \in DOMAIN order : order[i][1] = r})
Before(order, i, j) ==
  \/ FirstAt(order, order[i][1]) < FirstAt(order, order[j][1])
  \/ order[i][1] = order[j][1] /\ i < j
PosG(order, g) ==
  LET I == {i \in DOMAIN order : order[i][2] = g}
  IN IF I = {} THEN 0
     ELSE 1 + Cardinality({j \in DOMAIN order : Before(order, j, MinOf(I))})

\* the place of g among the entries of a directory created in the order done
PosIn(done, g) ==
  LET I == {i \in DOMAIN done : done[i] = g}
  IN IF I = {} THEN 0 ELSE MinOf(I)

\* ------------------------------------------------------------ the query ID
\* A file name is a sequence of characters; Chars are the characters the
\* names of the model are made of: a letter, a digit, the field separator,
\* the extension separator, a sign and the underscore.
Chars == {"a", "7", "@", ".", "+", "_"}
Digits == {"0", "1", "2", "3", "4", "5", "6", "7", "8", "9"}
Signs == {"+", "-"}
Whitespace == {" "}

\* s.split(c)
RECURSIVE split(_, _)
split(s, c) ==
  LET at == {k \in 1..Len(s) : s[k] = c}
  IN IF at = {} THEN <<s>>
     ELSE <<SubSeq(s, 1, MinOf(at) - 1)>> \o split(SubSeq(s, MinOf(at) + 1, Len(s)), c)

\* s.strip() of whitespace
RECURSIVE strip(_)
strip(s) ==
  IF s = <<>> THEN s
  ELSE IF s[1] \in Whitespace THEN strip(Tail(s))
  ELSE IF s[Len(s)] \in Whitespace THEN strip(SubSeq(s, 1, Len(s) - 1))
  ELSE s

\* int(s) does not raise ValueError: after stripping whitespace, an optional
\* sign, then decimal digits, which single underscores may separate
isInt(s) ==
  LET t == strip(s)
      body == IF t # <<>> /\ t[1] \in Signs THEN Tail(t) ELSE t
  IN /\ body # <<>>
     /\ \A i \in 1..Len(body) :
          \/ body[i] \in Digits
          \/ /\ body[i] = "_" /\ 1 < i /\ i < Len(body)
             /\ body[i - 1] \in Digits /\ body[i + 1] \in Digits

\* the ID fdog.addTaxon prints for the query
AddTaxonID == <<"a", "@", "7", "@", "1">>

\* parseQueryFa: exit is the sys.exit taken ("" none), queryID the ID
\* returned, genome whether <outDir>/genome_dir/<queryID> has been made (by
\* the function, or by fdog.addTaxon)
parseQueryFa(q, t, addTaxon) ==
  LET path == split(q, "/")
      id == split(path[Len(path)], ".")[1]
      queryIDtmp == split(id, "@")
  IN IF ~(Len(queryIDtmp) = 3 /\ isInt(queryIDtmp[2]))
       THEN IF t = 0
              THEN [exit |-> "format", queryID |-> <<>>, genome |-> FALSE]
              ELSE IF ~addTaxon
                     THEN [exit |-> "addTaxon", queryID |-> <<>>, genome |-> FALSE]
                     ELSE [exit |-> "", queryID |-> AddTaxonID, genome |-> TRUE]
       ELSE [exit |-> "", queryID |-> id, genome |-> TRUE]

\* the ncbiID column of the query's lines in the tables of calcFASall and
\* calcFAScons, after the prefix 'ncbi': queryID.split('@')[1]
ncbiID(id) == split(id, "@")[2]

\* ------------------------------------------------------------ worker count
\* only a count above cpu_count is reduced
clampCpus_above(c, n) == IF c > n THEN n - 1 ELSE c

\* if cpus >= mp.cpu_count(): cpus = mp.cpu_count()-1
clampCpus(c, n) == IF c >= n THEN n - 1 ELSE c

\* ------------------------------------------------------------ checkResult
\* force set, but the existing final table decides first
checkResult_finalFirst(f, force) ==
  IF f.tables["mode1"].ex THEN [status |-> 2, fs |-> f]
  ELSE IF force THEN [status |-> 0, fs |-> IF f.tree THEN rmtree(f) ELSE f]
  ELSE IF f.archive.ex THEN [status |-> 1, fs |-> f]
  ELSE [status |-> 0, fs |-> IF f.tree THEN rmtree(f) ELSE f]

\* without force, the archive decides before the final table
checkResult_archiveFirst(f, force) ==
  IF force THEN [status |-> 0, fs |-> IF f.tree THEN rmtree(f) ELSE f]
  ELSE IF f.archive.ex THEN [status |-> 1, fs |-> f]
  ELSE IF f.tables["mode1"].ex THEN [status |-> 2, fs |-> f]
  ELSE [status |-> 0, fs |-> IF f.tree THEN rmtree(f) ELSE f]

\* without force, a tree with neither final table nor archive is left as it is
checkResult_keepTree(f, force) ==
  IF force THEN [status |-> 0, fs |-> IF f.tree THEN rmtree(f) ELSE f]
  ELSE IF f.tables["mode1"].ex THEN [status |-> 2, fs |-> f]
  ELSE IF f.archive.ex THEN [status |-> 1, fs |-> f]
  ELSE [status |-> 0, fs |-> f]

checkResult(f, force) ==
  IF force
    THEN [status |-> 0, fs |-> IF f.tree THEN rmtree(f) ELSE f]
    ELSE IF ~f.tables["mode1"].ex
           THEN IF f.archive.ex
                  THEN [status |-> 1, fs |-> f]
                  ELSE [status |-> 0, fs |-> IF f.tree THEN rmtree(f) ELSE f]
           ELSE [status |-> 2, fs |-> f]

\* ------------------------------------------------------------- prepareJob
\* the choice is made among the members, not in list order
checkRefspec_byMember(refspecList, coreSpec) ==
  LET common == {s \in coreSpec : \E i \in 1..Len(refspecList) : refspecList[i] = s}
  IN IF common = {} THEN "" ELSE CHOOSE s \in common : TRUE

\* the species of the group's members, then the first list element among them
checkRefspec(refspecList, coreSpec) ==
  LET hits == {i \in 1..Len(refspecList) : refspecList[i] \in coreSpec}
  IN IF hits = {} THEN "" ELSE refspecList[MinOf(hits)]

\* <outPath>/<group>/<group>.phyloprofile exists
HasProfile(d, r, g) == d.ex /\ d.raw[r][g] = "ok"

\* the mapping is recorded only for the groups that get a job
prepareJob_mapJobsOnly(c, refspecList, d, force) ==
  LET dirs == DOMAIN c.members
      ref(g) == checkRefspec(refspecList, c.members[g])
      resolved == {g \in dirs : ref(g) # ""}
      todo == {h \in resolved : ~HasProfile(d, ref(h), h) \/ force}
  IN [fatal |-> (dirs \cup c.files) = {},
      fdogJobs |-> {[groupID |-> g, refspec |-> ref(g)] : g \in todo},
      ignored |-> dirs \ resolved,
      groupRefspec |-> [g \in todo |-> ref(g)]]

prepareJob(c, refspecList, d, force) ==
  LET dirs == DOMAIN c.members
      ref(g) == checkRefspec(refspecList, c.members[g])
      resolved == {g \in dirs : ref(g) # ""}
  IN [fatal |-> (dirs \cup c.files) = {},
      fdogJobs |-> {[groupID |-> g, refspec |-> ref(g)] :
                      g \in {h \in resolved : ~HasProfile(d, ref(h), h) \/ force}},
      ignored |-> dirs \ resolved,
      groupRefspec |-> [g \in resolved |-> ref(g)]]

\* ---------------------------------------------------------------- runFdog
\* One search job: fdog.run for the job's group, whose outcome is the
\* external tool's ("ok" exit 0 and the result directory written, "dir"
\* non-zero exit leaving the directory without <group>.extended.fa, "none"
\* non-zero exit and nothing written).  A non-zero exit is caught and a
\* warning naming the group is printed.  (The worker's os.remove of
\* <group>.fa acts on the working directory, outside the tree; the warning
\* it prints when that file is absent is not modelled.)
\* the exception of a failed job leaves the worker
runFdog_raise(job, outcome, f, warn) ==
  LET wrote == outcome # "none"
      d == f.fdog
  IN [fs |-> IF wrote
               THEN [f EXCEPT !.tree = TRUE,
                              !.fdog = [d EXCEPT !.ex = TRUE,
                                                 !.raw[job.refspec][job.groupID] = outcome,
                                                 !.order = IF d.raw[job.refspec][job.groupID] = "none"
                                                             THEN Append(@, <<job.refspec, job.groupID>>)
                                                             ELSE @]]
               ELSE f,
      warnings |-> warn,
      raised |-> outcome # "ok"]

runFdog(job, outcome, f, warn) ==
  LET wrote == outcome # "none"
      d == f.fdog
  IN [fs |-> IF wrote
               THEN [f EXCEPT !.tree = TRUE,
                              !.fdog = [d EXCEPT !.ex = TRUE,
                                                 !.raw[job.refspec][job.groupID] = outcome,
                                                 !.order = IF d.raw[job.refspec][job.groupID] = "none"
                                                             THEN Append(@, <<job.refspec, job.groupID>>)
                                                             ELSE @]]
               ELSE f,
      warnings |-> IF outcome # "ok" THEN warn \cup {job.groupID} ELSE warn,
      raised |-> FALSE]

\* ------------------------------------------------------------- outputMode
\* mode 2 (append) whenever phyloprofileOutput is there already
outputMode_append(f, force, approach) ==
  [mode |-> IF f.ppDir THEN 2 ELSE 3,
   fs |-> [f EXCEPT !.tree = TRUE, !.ppDir = TRUE]]

\* mode 3 unless <coreSet>_<approach>.phyloprofile exists, then 1 if forced
\* and 0 if not; phyloprofileOutput is made
outputMode(f, force, approach) ==
  [mode |-> IF approach \notin f.named THEN 3 ELSE IF force THEN 1 ELSE 0,
   fs |-> [f EXCEPT !.tree = TRUE, !.ppDir = TRUE]]

\* every mode opens the table for appending
OpenTable_append(mode, old) ==
  IF mode = 0 THEN old ELSE File(old.rows)

\* open(..., 'w') plus the header in modes 1 and 3, open(..., 'a') in mode 2,
\* nothing in mode 0
OpenTable(mode, old) ==
  IF mode = 1 \/ mode = 3 THEN File({})
  ELSE IF mode = 2 THEN File(old.rows)
  ELSE old

\* One written line of a table: the group, whether it is a query ortholog's
\* ("q") or a core member's ("core") line, the species, for a query line the
\* number o of the ortholog among the group's co-orthologs (0 for a core
\* line), the occurrence occ of the write that produced the line, the
\* reverse score column rev ("score" a score that was read, "0" the default,
\* "" in a table without the column), the place at of the line's group among
\* the groups written, and the run that wrote it.  Group, species and
\* ortholog make the line's key (groupID, ncbiID, orthoID).
Row(g, kind, sp, o, occ, rev, at, n) ==
  [g |-> g, kind |-> kind, sp |-> sp, o |-> o, occ |-> occ, rev |-> rev, at |-> at,
   run |-> n]

\* ---------------------------------------------------------------- calcFAS
\* Reference-pairwise pass.  crash: an unhandled exception ends the run.
calcFAS(f0, c, force, n, failing, orth) ==
  LET om == outputMode(f0, force, "other")
      mode == om.mode
      f1 == [om.fs EXCEPT !.tables["mode23"] = OpenTable(mode, @)]
      d == f1.fdog
      refs == RefDirs(d)
      remerge(r) == r \in refs /\ (~d.merged[r].ex \/ force)
      merged2 == [r \in Species |->
                    IF remerge(r) THEN File({g \in Groups : d.raw[r][g] = "ok"})
                    ELSE d.merged[r]]
      miss == {g \in Groups : \E r \in refs : remerge(r) /\ d.raw[r][g] = "dir"}
      refPP2 == [r \in Species |->
                   IF remerge(r) /\ "fdogFAS" \notin failing
                     THEN File(merged2[r].rows) ELSE d.refPP[r]]
      qrows == UNION {{Row(g, "q", "query", o, 1, "score", PosG(d.order, g), n) : o \in 1..orth[g]} :
                  g \in {h \in Groups : \E r \in refs : refPP2[r].ex /\ h \in refPP2[r].rows}}
      \* the core lines of group g under refspec r: one for every member s
      \* whose score table <s>.tsv has the line of r; the reverse score is
      \* looked up in <r>.tsv
      scored(g, r) == {s \in c.members[g] \ {r} : c.tsv[g][s] = "ok"}
      crows == UNION {UNION {{Row(g, "core", s, 0, 1,
                                  IF c.tsv[g][r] = "ok" THEN "score" ELSE "0",
                                  PosG(d.order, g), n) :
                                s \in scored(g, r)} :
                               g \in {h \in DOMAIN c.members : d.raw[r][h] # "none"}} :
                        r \in refs}
      \* readFile(revFile) of a file that does not exist
      noRevFile == \E r \in refs : \E g \in DOMAIN c.members :
                     d.raw[r][g] # "none" /\ scored(g, r) # {} /\ c.tsv[g][r] = "absent"
      rows == IF mode = 0 THEN {} ELSE qrows \cup crows
  IN IF ~d.ex
       THEN [crash |-> TRUE, fs |-> f1, missing |-> {}]
     ELSE IF mode # 0 /\ noRevFile
       THEN [crash |-> TRUE,
             fs |-> [f1 EXCEPT !.fdog.merged = merged2, !.fdog.refPP = refPP2],
             missing |-> miss]
       ELSE [crash |-> FALSE,
             fs |-> [f1 EXCEPT !.fdog.merged = merged2, !.fdog.refPP = refPP2,
                               !.tables["mode23"] = [@ EXCEPT !.rows = @ \cup rows]],
             missing |-> miss]

\* ------------------------------------------------------------- calcFASall
\* All-members pass.  A run that crashes after the tables were opened
\* leaves them with the header only.
\* The merge of the raw results into <queryID>_all.extended.fa.  The file is
\* a sequence of blocks, one for each query ortholog: the ortholog's sequence
\* under the id <count>_<id>, then the group's member sequences under
\* <count>_<id>|1.
\* the counter of a group is restarted for every ortholog
nextCount_restart(count, g) == 1

\* count[groupID] for the next ortholog of the group
nextCount(count, g) == IF g \in DOMAIN count THEN count[g] + 1 ELSE 1

\* the result directories in the order of the loops  for refSpec in
\* os.listdir(fdogOutDir): for groupID in os.listdir(refDir)
Scan(order) ==
  [k \in 1..Len(order) |->
     order[CHOOSE i \in DOMAIN order :
             Cardinality({j \in DOMAIN order : Before(order, j, i)}) = k - 1]]

\* the orthologs o..n of <refSpec>/<groupID>/<groupID>.extended.fa
RECURSIVE mergeSeqs(_, _, _, _, _, _)
mergeSeqs(r, g, o, n, members, count) ==
  IF o > n THEN [lines |-> <<>>, count |-> count]
  ELSE LET cnt == (g :> nextCount(count, g)) @@ count
           rest == mergeSeqs(r, g, o + 1, n, members, cnt)
       IN [lines |-> <<[g |-> g, r |-> r, o |-> o, tag |-> cnt[g],
                        core |-> {[tag |-> cnt[g], sp |-> s] : s \in members}]>>
                       \o rest.lines,
           count |-> rest.count]

RECURSIVE mergeDirs(_, _, _, _, _)
mergeDirs(scan, raw, c, orth, count) ==
  IF scan = <<>> THEN <<>>
  ELSE LET r == Head(scan)[1]
           g == Head(scan)[2]
           members == IF g \in DOMAIN c.members THEN c.members[g] ELSE {}
           one == mergeSeqs(r, g, 1, IF raw[r][g] = "ok" THEN orth[g] ELSE 0,
                            members, count)
       IN one.lines \o mergeDirs(Tail(scan), raw, c, orth, one.count)

mergeAll(d, c, orth) == mergeDirs(Scan(d.order), d.raw, c, orth, EmptyMap)

\* where the all-members pass looks for a group's cutoff table, and the
\* column of it that it takes the sequence id from
CutoffRead == [dir |-> "cutoff_dir", col |-> 3]

calcFASall(f0, c, force, n, failing, groupRefspec, orth) ==
  LET om == outputMode(f0, force, "mode1")
      mode == om.mode
      f1 == [om.fs EXCEPT !.tables["mode1"] = OpenTable(mode, @),
                          !.tables["length"] = OpenTable(mode, @)]
      d == f1.fdog
      remerge == ~d.allFa.ex \/ force
      found == {g \in Groups : \E r \in RefDirs(d) : d.raw[r][g] = "ok"}
      allFa2 == IF remerge THEN File(found) ELSE d.allFa
      allSeq2 == IF remerge THEN mergeAll(d, c, orth) ELSE d.allSeq
      nq(g) == Cardinality({i \in DOMAIN allSeq2 : allSeq2[i].g = g})
      scored == remerge /\ "fdogFASall" \notin failing
      allPP2 == IF scored THEN File(allFa2.rows) ELSE d.allPP
      allDom2 == IF scored THEN File(allFa2.rows) ELSE d.allDom
      f2 == [f1 EXCEPT !.fdog.allFa = allFa2, !.fdog.allPP = allPP2,
                       !.fdog.allDom = allDom2, !.fdog.allSeq = allSeq2]
      known(g) == g \in DOMAIN groupRefspec /\ g \in DOMAIN c.members
      \* the group's cutoff table: readFile of a file that is not there, or
      \* the third column of a line of another species than the reference
      \* species taken from a table that has fewer
      meanCore(g) == c.cutoff[g][CutoffRead.dir]
      noTable(g) == \/ meanCore(g) = <<>>
                    \/ /\ c.members[g] \ {groupRefspec[g]} # {}
                       /\ Len(meanCore(g)) < CutoffRead.col
      \* what is written for the k-th ortholog of group g: its own line, and
      \* one line for every member of the group but the reference species
      entry(g, k) == {Row(g, "q", "query", k, 1, "", PosG(d.order, g), n)} \cup
                       {Row(g, "core", s, 0, k, "", PosG(d.order, g), n) :
                          s \in c.members[g] \ {groupRefspec[g]}}
      ppRows == UNION {UNION {entry(g, k) : k \in 1..nq(g)} :
                       g \in {h \in allPP2.rows : known(h)}}
      lenRows == UNION {UNION {entry(g, k) : k \in 1..nq(g)} :
                        g \in {h \in allFa2.rows : known(h)}}
      domRows == UNION {{Row(g, "q", "query", o, 1, "", PosG(d.order, g), n) : o \in 1..nq(g)} :
                        g \in allDom2.rows}
  IN IF ~d.ex
       THEN [crash |-> TRUE, fs |-> f1]
     ELSE IF mode = 0
       THEN [crash |-> FALSE, fs |-> f2]
     ELSE IF ~allPP2.ex \/ (\E g \in allPP2.rows \cup allFa2.rows : ~known(g))
       THEN [crash |-> TRUE, fs |-> f2]
     ELSE IF \E g \in allPP2.rows : noTable(g)
       THEN [crash |-> TRUE, fs |-> f2]
     ELSE [crash |-> FALSE,
           fs |-> [f2 EXCEPT !.tables["mode1"] = [@ EXCEPT !.rows = @ \cup ppRows],
                             !.tables["length"] = [@ EXCEPT !.rows = @ \cup lenRows],
                             !.tables["domain"] = File(domRows)]]

\* ------------------------------------------------------------ calcFAScons
\* Consensus pass; the scoring jobs of its pool write tmp/fasOut/<group>.tsv,
\* in the order done in which they complete, and the table is written in the
\* order of os.listdir(fasDirOutTmp).  pool: mp.Pool(cpus) was reached; it
\* raises for a process count below 1.
calcFAScons(f0, c, force, n, failing, orth, done, workers) ==
  LET om == outputMode(f0, force, "other")
      mode == om.mode
      f1 == [om.fs EXCEPT !.tables["mode4"] = OpenTable(mode, @), !.tmp = TRUE]
      d == f1.fdog
      refs == RefDirs(d)
      jobs == {g \in Groups : \E r \in refs : d.raw[r][g] = "ok"}
      tsv == IF "calcFAS" \in failing THEN {} ELSE jobs
      made == SelectSeq(done, LAMBDA g : g \in tsv)
      rows == UNION {{Row(g, "q", "query", o, 1, "", PosIn(made, g), n) : o \in 1..orth[g]} :
                     g \in tsv}
  IN IF ~d.ex \/ (refs # {} /\ "annoFAS" \in failing)
       THEN [crash |-> TRUE, pool |-> FALSE, fs |-> f1]
     ELSE IF workers < 1 \/ mode = 0
       THEN [crash |-> TRUE, pool |-> TRUE, fs |-> f1]
       ELSE [crash |-> FALSE, pool |-> TRUE,
             fs |-> [f1 EXCEPT !.tables["mode4"] = [@ EXCEPT !.rows = @ \cup rows]]]

\* ------------------------------------------------- archive and unpacking
Level(x) == IF x = "ok" THEN 2 ELSE IF x = "dir" THEN 1 ELSE 0
Over(a, b) == IF a.ex THEN a ELSE b

\* nothing is unpacked
unpack_archive_skip(a, d) == d

\* shutil.unpack_archive over the directory: the archive's files replace or
\* add to what is there
unpack_archive(a, d) ==
  [ex |-> TRUE,
   raw |-> [r \in Species |-> [g \in Groups |->
              IF Level(a.raw[r][g]) >= Level(d.raw[r][g]) THEN a.raw[r][g] ELSE d.raw[r][g]]],
   order |-> d.order \o SelectSeq(a.order, LAMBDA x : d.raw[x[1]][x[2]] = "none"),
   merged |-> [r \in Species |-> Over(a.merged[r], d.merged[r])],
   refPP |-> [r \in Species |-> Over(a.refPP[r], d.refPP[r])],
   allFa |-> Over(a.allFa, d.allFa), allPP |-> Over(a.allPP, d.allPP),
   allDom |-> Over(a.allDom, d.allDom),
   allSeq |-> IF a.allFa.ex THEN a.allSeq ELSE d.allSeq]

make_archive(d) == d

readRefspecFile(file) == file.map

\* ------------------------------------------------------------------ state
VARIABLES
  core,         \* the core set: group directories with their member species, other entries
  fdogOutcome,  \* what fdog.run does for each group's job
  coOrtho,      \* the number of query orthologs fdog.run finds for each group
  failing,      \* the aggregation tools that exit non-zero
  fs,           \* the query's output tree
  pc,           \* position of the driver; "idle" between invocations
  runs,         \* number of the current invocation
  force, keep, refspecList,          \* arguments of the invocation
  status,       \* result of checkResult
  fdogJobs, pending, warnings,       \* the search pool: jobs, jobs not yet run, warnings printed
  ignored, groupRefspec, missing,    \* the driver's lists and mapping
  crashAt,      \* stage at which an unhandled error ended the run
  pre,          \* the output tree when the invocation started
  scen, snap,   \* history: what the last completed run left, and its tables
  cpc,          \* position of calcCutoff's main; "off" when it is not the program run
  fasJobs,      \* calcCutoff: the scoring jobs
  fasState,     \* calcCutoff: how far each scoring job is
  groupRefSpec, \* calcCutoff: the species of each entry of the core-set directory
  cutPending,   \* calcCutoff: cutoff jobs not yet run
  lost,         \* calcCutoff: cutoff jobs whose worker exited without a result
  outTmp,       \* calcCutoff: the files <group>/fas_dir/outTmp/<species>.tsv
  scoreDir,     \* calcCutoff: the groups whose score_dir/1.cutoff and 2.cutoff are complete
  cutFiles,     \* calcCutoff: what the cutoff jobs have written under <entry>/fas_dir
  scoreDict,    \* getGroupPairs: its argument, the table fasScores['all'] of a group
  groupPair,    \* getGroupPairs: what it returned
  archiveOk,    \* whether shutil.make_archive and shutil.move succeed
  argsCpus,     \* the --cpus argument
  cpu_count,    \* mp.cpu_count() of the machine
  cpus,         \* the program's variable cpus
  pools,        \* the process counts given to mp.Pool in this invocation
  query,        \* the --querySpecies argument: the file's name, a sequence of characters
  taxid,        \* the --taxid argument
  addTaxonOk,   \* whether fdog.addTaxon exits with 0
  queryID,      \* the program's variable queryID
  genomeDir     \* <outDir>/genome_dir/<queryID> exists

vars == <<core, fdogOutcome, coOrtho, failing, fs, pc, runs, force, keep, refspecList,
          status, fdogJobs, pending, warnings, ignored, groupRefspec, missing,
          crashAt, pre, scen, snap,
          cpc, fasJobs, fasState, groupRefSpec, cutPending, lost, outTmp, scoreDir,
          cutFiles, scoreDict, groupPair, archiveOk,
          argsCpus, cpu_count, cpus, pools,
          query, taxid, addTaxonOk, queryID, genomeDir>>

\* the argument and the result of getGroupPairs, a function applied on its own
pairs == <<scoreDict, groupPair>>
env == <<core, fdogOutcome, coOrtho, failing, argsCpus, cpu_count, query, taxid, addTaxonOk,
         archiveOk, pairs>>
qry == <<queryID, genomeDir>>
par == <<cpus, pools, qry>>

\* the variables of calcCutoff, and those of searchOrtho
cutoff == <<cpc, fasJobs, fasState, groupRefSpec, cutPending, lost, outTmp, scoreDir,
            cutFiles>>
search == <<fs, pc, runs, keep, refspecList, status, fdogJobs, pending, warnings,
            ignored, groupRefspec, missing, pre, scen, snap>>

Outcomes == {"ok", "dir", "none"}
PrefSpecies == Species \cup {""}
PrefLists == UNION {[1..n -> PrefSpecies] : n \in 1..MaxPrefLen}
\* the lists the driver is invoked with: no species named twice
RunPrefLists == {rl \in PrefLists : \A i, j \in 1..Len(rl) : rl[i] = rl[j] => i = j}
CoreFiles == {"README"}

\* <group>/fas_dir/fasscore_dir/<species>.tsv, the score table of one member
\* against the others: "absent" no such file, "norow" a file without the
\* lines looked for, "ok" a file with them
TsvStates == {"absent", "norow", "ok"}
AllTsv(members) ==
  [g \in DOMAIN members |-> [s \in Species |-> IF s \in members[g] THEN "ok" ELSE "absent"]]

\* The member species of the groups whose <group>.fa holds seqs[g][s]
\* sequences of species s.
MembersOf(seqs) == [g \in DOMAIN seqs |-> {s \in Species : seqs[g][s] > 0}]

\* <group>/fas_dir/<subdirectory>/2.cutoff: the names of its columns, <<>> if
\* there is no such file.  A core set as distributed has the table read by
\* the all-members pass, cutoff_dir/2.cutoff with species, mean score and
\* sequence id.
FasSubdirs == {"score_dir", "cutoff_dir"}
AllCutoff(members) ==
  [g \in DOMAIN members |->
     [x \in FasSubdirs |-> IF x = "cutoff_dir" THEN <<"taxa", "cutoff", "gene">> ELSE <<>>]]

CoreOf(seqs, files) ==
  [members |-> MembersOf(seqs), seqs |-> seqs, files |-> files,
   tsv |-> AllTsv(MembersOf(seqs)), cutoff |-> AllCutoff(MembersOf(seqs))]

\* the core-set directory with what the cutoff jobs have written into it
CoreDir(c, written) ==
  [c EXCEPT !.cutoff =
     [g \in DOMAIN @ |->
        IF g \in DOMAIN written
          THEN [@[g] EXCEPT ![written[g].dir] = written[g].two.cols]
          ELSE @[g]]]

\* any core-set directory: group directories, each with the member
\* sequences of its <group>.fa, and other entries
Cores ==
  UNION {{CoreOf(q, fl) : q \in [D -> [Species -> 0..MaxSeqs]], fl \in SUBSET CoreFiles} :
           D \in SUBSET Groups}

DefaultSeqs == ("g1" :> [s \in Species |-> 1]) @@
               ("g2" :> [s \in Species |-> IF s = "B" THEN 1 ELSE 0])
DefaultMembers == MembersOf(DefaultSeqs)
DefaultCore == CoreOf(DefaultSeqs, {})

\* two co-orthologs are found for g1, one ortholog for g2
DefaultOrtho == ("g1" :> 2) @@ ("g2" :> 1)

Running == pc \notin {"off", "idle", "done", "crashed"}

\* the --cpus default, and a machine
DefaultCpus == 4
DefaultCpuCount == 2

\* getGroupPairs is not applied
NoScores == [order |-> <<>>, inner |-> <<>>, sc |-> <<>>]
NoPairs == scoreDict = NoScores /\ groupPair = [done |-> FALSE, out |-> <<>>]

\* calcCutoff is not the program run
NoCutoff ==
  /\ cpc = "off"
  /\ fasJobs = {} /\ fasState = EmptyMap /\ groupRefSpec = EmptyMap
  /\ cutPending = {} /\ lost = {}
  /\ outTmp = {} /\ scoreDir = {} /\ cutFiles = EmptyMap /\ NoPairs /\ archiveOk = TRUE

\* the query file HUMAN@9606@3.fa, no --taxid
DefaultName == <<"a", "@", "7", "@", "7">>
DefaultQuery ==
  /\ query = DefaultName /\ taxid = 0 /\ addTaxonOk = TRUE
  /\ queryID = <<>> /\ genomeDir = FALSE
ParsedQuery ==
  /\ query = DefaultName /\ taxid = 0 /\ addTaxonOk = TRUE
  /\ queryID = parseQueryFa(query, taxid, addTaxonOk).queryID /\ genomeDir = TRUE

Init ==
  /\ core = DefaultCore
  /\ fdogOutcome \in [Groups -> Outcomes]
  /\ coOrtho = DefaultOrtho
  /\ failing \in {S \in SUBSET Tools : Cardinality(S) <= MaxToolFail}
  /\ fs = EmptyFs
  /\ pc = "idle"
  /\ runs = 0
  /\ force = FALSE /\ keep = FALSE /\ refspecList = <<"">>
  /\ status = 0
  /\ fdogJobs = {} /\ pending = {} /\ warnings = {}
  /\ ignored = {} /\ groupRefspec = EmptyMap /\ missing = {}
  /\ crashAt = ""
  /\ pre = EmptyFs
  /\ scen = "none" /\ snap = EmptyFs.tables
  /\ NoCutoff
  /\ argsCpus = DefaultCpus /\ cpu_count = DefaultCpuCount
  /\ cpus = argsCpus /\ pools = {}
  /\ DefaultQuery

\* the orders in which the jobs of one batch, one for each group, can complete
JobOrders == {q \in [1..Cardinality(Groups) -> Groups] : \A g \in Groups : \E i \in DOMAIN q : q[i] = g}

\* the order in which os.listdir(hmmPath) gives the groups to prepareJob,
\* which is the order of the jobs in the batch
BatchOrder == <<"g1", "g2">>

\* ---------------------------------------------------------------- actions
\* searchOrtho is invoked
Start(f, k, rl) ==
  /\ pc = "idle" /\ runs < MaxRuns
  /\ runs' = runs + 1
  /\ force' = f /\ keep' = k /\ refspecList' = rl
  /\ LET p == parseQueryFa(query, taxid, addTaxonOk)
     IN /\ queryID' = p.queryID
        /\ genomeDir' = (genomeDir \/ p.genome)
        /\ IF p.exit # ""
             THEN pc' = "crashed" /\ crashAt' = p.exit
             ELSE pc' = "check" /\ crashAt' = ""
  /\ pre' = fs
  /\ status' = 0
  /\ fdogJobs' = {} /\ pending' = {} /\ warnings' = {}
  /\ ignored' = {} /\ groupRefspec' = EmptyMap /\ missing' = {}
  /\ scen' = IF ~f /\ scen = "deleted" THEN "resuming"
             ELSE IF ~f /\ scen = "completed" THEN "completed" ELSE "none"
  /\ cpus' = clampCpus(argsCpus, cpu_count)
  /\ pools' = {}
  /\ UNCHANGED <<env, cutoff, fs, snap>>

CheckResult ==
  /\ pc = "check"
  /\ LET cr == checkResult(fs, force)
     IN /\ fs' = cr.fs
        /\ status' = cr.status
        /\ pc' = IF cr.status = 0 THEN "prepare"
                 ELSE IF cr.status = 1 THEN "unpack" ELSE "archive"
  /\ UNCHANGED <<env, par, cutoff, runs, force, keep, refspecList, fdogJobs, pending, warnings,
                 ignored, groupRefspec, missing, crashAt, pre, scen, snap>>

PrepareJob ==
  /\ pc = "prepare"
  /\ LET pj == prepareJob(core, refspecList, fs.fdog, force)
     IN IF pj.fatal
          THEN /\ pc' = "crashed" /\ crashAt' = "prepare"
               /\ UNCHANGED <<fdogJobs, pending, ignored, groupRefspec>>
          ELSE /\ fdogJobs' = pj.fdogJobs /\ pending' = pj.fdogJobs
               /\ ignored' = pj.ignored /\ groupRefspec' = pj.groupRefspec
               /\ IF cpus < 1
                    THEN pc' = "crashed" /\ crashAt' = "mkpool"
                    ELSE pc' = "pool" /\ crashAt' = crashAt
  /\ pools' = IF prepareJob(core, refspecList, fs.fdog, force).fatal
               THEN pools ELSE pools \cup {cpus}
  /\ UNCHANGED <<env, cpus, qry, cutoff, fs, runs, force, keep, refspecList, status, warnings,
                 missing, pre, scen, snap>>

\* a pool worker runs one job, in any order
RunFdog(j) ==
  /\ pc = "pool" /\ j \in pending
  /\ LET res == runFdog(j, fdogOutcome[j.groupID], fs, warnings)
     IN /\ fs' = res.fs
        /\ warnings' = res.warnings
        /\ IF res.raised
             THEN pc' = "crashed" /\ crashAt' = "pool"
             ELSE pc' = pc /\ crashAt' = crashAt
  /\ pending' = pending \ {j}
  /\ UNCHANGED <<env, par, cutoff, runs, force, keep, refspecList, status, fdogJobs,
                 ignored, groupRefspec, missing, pre, scen, snap>>

\* the lists are written and the passes begin whatever the pool has done
WriteLists_early ==
  /\ pc = "pool"
  /\ IF (ignored # {} \/ DOMAIN groupRefspec # {}) /\ ~fs.tree
       THEN pc' = "crashed" /\ crashAt' = "lists" /\ fs' = fs
       ELSE /\ pc' = "pass1" /\ crashAt' = crashAt
            /\ fs' = [fs EXCEPT
                 !.ignoredTxt = IF ignored # {} THEN File(ignored) ELSE @,
                 !.refspecTxt = IF DOMAIN groupRefspec # {}
                                  THEN [ex |-> TRUE, map |-> groupRefspec] ELSE @]
  /\ UNCHANGED <<env, par, cutoff, runs, force, keep, refspecList, status, fdogJobs, pending,
                 warnings, ignored, groupRefspec, missing, pre, scen, snap>>

\* last_refspec.txt is not written
WriteLists_noRefspec ==
  /\ pc = "pool" /\ pending = {}
  /\ IF (ignored # {} \/ DOMAIN groupRefspec # {}) /\ ~fs.tree
       THEN pc' = "crashed" /\ crashAt' = "lists" /\ fs' = fs
       ELSE /\ pc' = "pass1" /\ crashAt' = crashAt
            /\ fs' = [fs EXCEPT
                 !.ignoredTxt = IF ignored # {} THEN File(ignored) ELSE @]
  /\ UNCHANGED <<env, par, cutoff, runs, force, keep, refspecList, status, fdogJobs, pending,
                 warnings, ignored, groupRefspec, missing, pre, scen, snap>>

\* the pool is done: ignored.txt and last_refspec.txt are written
WriteLists ==
  /\ pc = "pool" /\ pending = {}
  /\ IF (ignored # {} \/ DOMAIN groupRefspec # {}) /\ ~fs.tree
       THEN pc' = "crashed" /\ crashAt' = "lists" /\ fs' = fs
       ELSE /\ pc' = "pass1" /\ crashAt' = crashAt
            /\ fs' = [fs EXCEPT
                 !.ignoredTxt = IF ignored # {} THEN File(ignored) ELSE @,
                 !.refspecTxt = IF DOMAIN groupRefspec # {}
                                  THEN [ex |-> TRUE, map |-> groupRefspec] ELSE @]
  /\ UNCHANGED <<env, par, cutoff, runs, force, keep, refspecList, status, fdogJobs, pending,
                 warnings, ignored, groupRefspec, missing, pre, scen, snap>>

Unpack ==
  /\ pc = "unpack"
  /\ fs' = [fs EXCEPT !.fdog = unpack_archive(fs.archive, fs.fdog)]
  /\ pc' = "pass1"
  /\ UNCHANGED <<env, par, cutoff, runs, force, keep, refspecList, status, fdogJobs, pending,
                 warnings, ignored, groupRefspec, missing, crashAt, pre, scen, snap>>

Pass1 ==
  /\ pc = "pass1"
  /\ LET gr == IF DOMAIN groupRefspec = {} /\ fs.refspecTxt.ex
                 THEN readRefspecFile(fs.refspecTxt) ELSE groupRefspec
         res == calcFAS(fs, core, force, runs, failing, coOrtho)
     IN /\ groupRefspec' = gr
        /\ fs' = res.fs
        /\ missing' = res.missing
        /\ IF res.crash
             THEN pc' = "crashed" /\ crashAt' = "pass1"
             ELSE pc' = "pass2" /\ crashAt' = crashAt
  /\ UNCHANGED <<env, par, cutoff, runs, force, keep, refspecList, status, fdogJobs, pending,
                 warnings, ignored, pre, scen, snap>>

Pass2 ==
  /\ pc = "pass2"
  /\ LET res == calcFASall(fs, CoreDir(core, cutFiles), force, runs, failing, groupRefspec,
                           coOrtho)
     IN /\ fs' = res.fs
        /\ IF res.crash
             THEN pc' = "crashed" /\ crashAt' = "pass2"
             ELSE pc' = "pass3" /\ crashAt' = crashAt
  /\ UNCHANGED <<env, par, cutoff, runs, force, keep, refspecList, status, fdogJobs, pending,
                 warnings, ignored, groupRefspec, missing, pre, scen, snap>>

Pass3 ==
  /\ pc = "pass3"
  /\ \E done \in JobOrders :
     LET res == calcFAScons(fs, core, force, runs, failing, coOrtho, done, cpus)
     IN /\ fs' = res.fs
        /\ pools' = IF res.pool THEN pools \cup {cpus} ELSE pools
        /\ IF res.crash
             THEN pc' = "crashed" /\ crashAt' = "pass3"
             ELSE pc' = "finish" /\ crashAt' = crashAt
  /\ UNCHANGED <<env, cpus, qry, cutoff, runs, force, keep, refspecList, status, fdogJobs, pending,
                 warnings, ignored, groupRefspec, missing, pre, scen, snap>>

\* tmp is removed and missing.txt written
Finish ==
  /\ pc = "finish"
  /\ fs' = [fs EXCEPT !.tmp = FALSE,
                      !.missingTxt = IF missing # {} THEN File(missing) ELSE @]
  /\ pc' = "archive"
  /\ UNCHANGED <<env, par, cutoff, runs, force, keep, refspecList, status, fdogJobs, pending,
                 warnings, ignored, groupRefspec, missing, crashAt, pre, scen, snap>>

\* fdogOutput, if there, is archived; a failure of make_archive is caught
\* and leaves what was there
Archive ==
  /\ pc = "archive"
  /\ fs' = IF fs.fdog.ex /\ archiveOk
             THEN [fs EXCEPT !.archive = make_archive(fs.fdog)] ELSE fs
  /\ pc' = "cleanup"
  /\ UNCHANGED <<env, par, cutoff, runs, force, keep, refspecList, status, fdogJobs, pending,
                 warnings, ignored, groupRefspec, missing, crashAt, pre, scen, snap>>

\* without --keep, genome_dir and fdogOutput are removed
Cleanup ==
  /\ pc = "cleanup"
  /\ fs' = IF ~keep THEN [fs EXCEPT !.fdog = NoDir] ELSE fs
  /\ genomeDir' = (keep /\ genomeDir)
  /\ pc' = "done"
  /\ UNCHANGED <<env, cpus, pools, queryID, cutoff, runs, force, keep, refspecList, status, fdogJobs, pending,
                 warnings, ignored, groupRefspec, missing, crashAt, pre, scen, snap>>

\* the process is killed; its variables are gone
Interrupt ==
  /\ Running
  /\ pc' = "idle"
  /\ scen' = "none"
  /\ force' = FALSE /\ keep' = FALSE /\ refspecList' = <<"">>
  /\ status' = 0
  /\ fdogJobs' = {} /\ pending' = {} /\ warnings' = {}
  /\ ignored' = {} /\ groupRefspec' = EmptyMap /\ missing' = {}
  /\ crashAt' = ""
  /\ pre' = EmptyFs
  /\ cpus' = argsCpus /\ pools' = {}
  /\ queryID' = <<>> /\ genomeDir' = genomeDir
  /\ UNCHANGED <<env, cutoff, fs, runs, snap>>

\* the process has ended; its variables are gone
Return ==
  /\ pc \in {"done", "crashed"}
  /\ pc' = "idle"
  /\ scen' = IF pc # "done" THEN "none"
             ELSE IF status # 2 THEN "completed" ELSE scen
  /\ snap' = IF pc = "done" /\ status # 2 THEN fs.tables ELSE snap
  /\ force' = FALSE /\ keep' = FALSE /\ refspecList' = <<"">>
  /\ status' = 0
  /\ fdogJobs' = {} /\ pending' = {} /\ warnings' = {}
  /\ ignored' = {} /\ groupRefspec' = EmptyMap /\ missing' = {}
  /\ crashAt' = ""
  /\ pre' = EmptyFs
  /\ cpus' = argsCpus /\ pools' = {}
  /\ queryID' = <<>> /\ genomeDir' = genomeDir
  /\ UNCHANGED <<env, cutoff, fs, runs>>

\* the user removes the aggregated tables (phyloprofileOutput) between runs
DeleteTables ==
  /\ pc = "idle"
  /\ \E t \in TableNames : fs.tables[t].ex
  /\ fs' = [fs EXCEPT !.tables = EmptyFs.tables, !.ppDir = FALSE]
  /\ scen' = IF scen \in {"completed", "deleted"} THEN "deleted" ELSE "none"
  /\ UNCHANGED <<env, par, cutoff, pc, runs, force, keep, refspecList, status, fdogJobs, pending,
                 warnings, ignored, groupRefspec, missing, crashAt, pre, snap>>

Next ==
  \/ \E f \in BOOLEAN, k \in BOOLEAN, rl \in RunPrefLists : Start(f, k, rl)
  \/ CheckResult
  \/ PrepareJob
  \/ \E j \in pending : RunFdog(j)
  \/ WriteLists
  \/ Unpack
  \/ Pass1
  \/ Pass2
  \/ Pass3
  \/ Finish
  \/ Archive
  \/ Cleanup
  \/ Interrupt
  \/ Return
  \/ DeleteTables

Spec == Init /\ [][Next]_vars

\* ------------------------------------------------------------- calcCutoff
\* The job builder of calcCutoff: every entry of the core-set directory gets
\* an entry in groupRefSpec; every member sequence of every group directory
\* gets a scoring job, named by the sequence and its species.
cutoff_prepareJob(c) ==
  LET entries == DOMAIN c.members \cup c.files
  IN [fatal |-> entries = {},
      fasJobs |-> UNION {UNION {{[queryID |-> i, refSpec |-> s, groupID |-> g] :
                                   i \in 1..c.seqs[g][s]} : s \in Species} :
                           g \in DOMAIN c.members},
      groupRefSpec |-> [e \in entries |->
                          IF e \in DOMAIN c.members THEN c.members[e] ELSE {}]]

\* the file a scoring job tests, removes and lets calcFAS write:
\* <group>/fas_dir/outTmp/<refSpec>.tsv
OutTsv(j) == <<j.groupID, j.refSpec>>

\* One cutoff job, for the entry e with the species refs, given the score
\* files present: "raise" an exception that reaches main (the entry is not a
\* directory, or the group's score table has no pair of species), "exit"
\* sys.exit in the worker (a score file is absent), "ok" 1.cutoff and
\* 2.cutoff written.
\* res is that outcome; wrote: score_dir was made and the two files opened;
\* files: what they hold when the job ends, 1.cutoff (one) as the labels of
\* its lines and 2.cutoff (two) as its column names and the species of its
\* lines.
\* The sequences of <group>.fa are the length samples.
RECURSIVE NumSeqs(_, _)
NumSeqs(seqs, S) ==
  IF S = {} THEN 0
  ELSE LET s == CHOOSE x \in S : TRUE IN seqs[s] + NumSeqs(seqs, S \ {s})

CutoffFiles(one, taxa) ==
  [dir |-> "score_dir", one |-> one, two |-> [cols |-> <<"taxa", "cutoff">>, taxa |-> taxa]]

\* the standard deviation of fewer than two samples is written as a value
calcCutoff_degenerate(c, e, refs, tsvs) ==
  IF e \in c.files
    THEN [res |-> "raise", wrote |-> FALSE, files |-> CutoffFiles(<<>>, {})]
  ELSE IF \E s \in refs : <<e, s>> \notin tsvs
    THEN [res |-> "exit", wrote |-> TRUE, files |-> CutoffFiles(<<"label">>, {})]
  ELSE [res |-> "ok", wrote |-> TRUE,
        files |-> CutoffFiles(<<"label", "mean", "LCL", "UCL", "meanLen", "stdevLen">>, refs)]

calcCutoff(c, e, refs, tsvs) ==
  IF e \in c.files
    THEN [res |-> "raise", wrote |-> FALSE, files |-> CutoffFiles(<<>>, {})]
  ELSE IF \E s \in refs : <<e, s>> \notin tsvs
    THEN [res |-> "exit", wrote |-> TRUE, files |-> CutoffFiles(<<"label">>, {})]
  ELSE IF Cardinality(refs) < 2
    THEN [res |-> "raise", wrote |-> TRUE, files |-> CutoffFiles(<<"label">>, {})]
  ELSE IF NumSeqs(c.seqs[e], Species) < 2
    THEN [res |-> "raise", wrote |-> TRUE,
          files |-> CutoffFiles(<<"label", "mean", "LCL", "UCL", "meanLen">>, refs)]
  ELSE [res |-> "ok", wrote |-> TRUE,
        files |-> CutoffFiles(<<"label", "mean", "LCL", "UCL", "meanLen", "stdevLen">>, refs)]

\* main up to the creation of the pool: the worker count, the job builder
CutPrepare ==
  /\ cpc = "prepare"
  /\ cpus' = clampCpus(argsCpus, cpu_count)
  /\ LET pj == cutoff_prepareJob(core)
     IN IF pj.fatal
          THEN /\ cpc' = "crashed" /\ crashAt' = "prepare"
               /\ pools' = pools
               /\ UNCHANGED <<fasJobs, fasState, groupRefSpec>>
          ELSE /\ fasJobs' = pj.fasJobs
               /\ fasState' = [j \in pj.fasJobs |-> "todo"]
               /\ groupRefSpec' = pj.groupRefSpec
               /\ pools' = pools \cup {cpus'}
               /\ IF cpus' < 1
                    THEN cpc' = "crashed" /\ crashAt' = "mkpool"
                    ELSE cpc' = "scoring" /\ crashAt' = crashAt
  /\ UNCHANGED <<env, qry, search, force, cutPending, lost, outTmp, scoreDir, cutFiles>>

\* a scoring worker tests its output file
FasCheck(j) ==
  /\ cpc = "scoring" /\ fasState[j] = "todo"
  /\ fasState' = [fasState EXCEPT ![j] = IF OutTsv(j) \notin outTmp THEN "run"
                                         ELSE IF force THEN "remove" ELSE "done"]
  /\ UNCHANGED <<env, par, search, force, crashAt, cpc, fasJobs, groupRefSpec, cutPending,
                 lost, outTmp, scoreDir, cutFiles>>

\* a scoring worker removes the file it found, if force, and runs calcFAS
FasRun(j) ==
  /\ cpc = "scoring" /\ fasState[j] \in {"run", "remove"}
  /\ fasState' = [fasState EXCEPT ![j] = "done"]
  /\ IF fasState[j] = "remove" /\ OutTsv(j) \notin outTmp
       THEN /\ cpc' = "crashed" /\ crashAt' = "scoring"
            /\ outTmp' = outTmp
       ELSE /\ cpc' = cpc /\ crashAt' = crashAt
            /\ outTmp' = IF "calcFAS" \notin failing THEN outTmp \cup {OutTsv(j)}
                         ELSE IF fasState[j] = "remove" THEN outTmp \ {OutTsv(j)}
                         ELSE outTmp
  /\ UNCHANGED <<env, par, search, force, fasJobs, groupRefSpec, cutPending, lost, scoreDir, cutFiles>>

\* every scoring result has been taken from the pool: the cutoff jobs are built
FasDone ==
  /\ cpc = "scoring" /\ \A j \in fasJobs : fasState[j] = "done"
  /\ cpc' = "cutoff"
  /\ cutPending' = DOMAIN groupRefSpec
  /\ UNCHANGED <<env, par, search, force, crashAt, fasJobs, fasState, groupRefSpec, lost,
                 outTmp, scoreDir, cutFiles>>

CutoffRun(e) ==
  /\ cpc = "cutoff" /\ e \in cutPending
  /\ cutPending' = cutPending \ {e}
  /\ LET job == calcCutoff(core, e, groupRefSpec[e], outTmp)
         res == job.res
     IN /\ scoreDir' = IF res = "ok" THEN scoreDir \cup {e} ELSE scoreDir
        /\ cutFiles' = IF job.wrote THEN (e :> job.files) @@ cutFiles ELSE cutFiles
        /\ lost' = IF res = "exit" THEN lost \cup {e} ELSE lost
        /\ IF res = "raise"
             THEN cpc' = "crashed" /\ crashAt' = "cutoff"
             ELSE cpc' = cpc /\ crashAt' = crashAt
  /\ UNCHANGED <<env, par, search, force, fasJobs, fasState, groupRefSpec, outTmp>>

\* every cutoff result has been taken from the pool; a job whose worker
\* exited never gives one
CutDone ==
  /\ cpc = "cutoff" /\ cutPending = {} /\ lost = {}
  /\ cpc' = "done"
  /\ UNCHANGED <<env, par, search, force, crashAt, fasJobs, fasState, groupRefSpec,
                 cutPending, lost, outTmp, scoreDir, cutFiles>>

NextCutoff ==
  \/ CutPrepare
  \/ \E j \in fasJobs : FasCheck(j)
  \/ \E j \in fasJobs : FasRun(j)
  \/ FasDone
  \/ \E e \in cutPending : CutoffRun(e)
  \/ CutDone

\* calcCutoff is invoked on any core set, with or without the score files
\* of an earlier invocation
InitCutoff ==
  /\ core \in Cores
  /\ fdogOutcome = [g \in Groups |-> "ok"]
  /\ coOrtho = DefaultOrtho
  /\ failing \in {{}, {"calcFAS"}}
  /\ fs = EmptyFs
  /\ pc = "off"
  /\ runs = 0
  /\ force \in BOOLEAN /\ keep = FALSE /\ refspecList = <<"">>
  /\ status = 0
  /\ fdogJobs = {} /\ pending = {} /\ warnings = {}
  /\ ignored = {} /\ groupRefspec = EmptyMap /\ missing = {}
  /\ crashAt = ""
  /\ pre = EmptyFs
  /\ scen = "none" /\ snap = EmptyFs.tables
  /\ cpc = "prepare"
  /\ fasJobs = {} /\ fasState = EmptyMap /\ groupRefSpec = EmptyMap
  /\ cutPending = {} /\ lost = {}
  /\ outTmp \in {{}, {x \in Groups \X Species :
                         x[1] \in DOMAIN core.members /\ x[2] \in core.members[x[1]]}}
  /\ scoreDir = {} /\ cutFiles = EmptyMap /\ NoPairs /\ archiveOk = TRUE
  /\ argsCpus = DefaultCpus /\ cpu_count = DefaultCpuCount
  /\ cpus = argsCpus /\ pools = {}
  /\ DefaultQuery

SpecCutoff == InitCutoff /\ [][NextCutoff]_vars

\* either program is run
InitStages == Init \/ InitCutoff
NextStages == Next \/ NextCutoff
SpecStages == InitStages /\ [][NextStages]_vars

AllDirs == <<<<"A", "g1">>, <<"A", "g2">>, <<"B", "g1">>, <<"B", "g2">>>>

\* every species has one sequence in every group
EverySeqs == [g \in Groups |-> [s \in Species |-> 1]]

\* Either program on any machine with any --cpus argument, with every tool
\* succeeding: the search on the default core set, the cutoff program on a
\* core set whose groups hold every species.
InitCpus ==
  /\ \/ pc = "idle" /\ cpc = "off" /\ core = DefaultCore
     \/ pc = "off" /\ cpc = "prepare" /\ core = CoreOf(EverySeqs, {})
  /\ fdogOutcome = [g \in Groups |-> "ok"]
  /\ coOrtho = DefaultOrtho
  /\ failing = {}
  /\ fs = EmptyFs
  /\ runs = 0
  /\ force = FALSE /\ keep = FALSE /\ refspecList = <<"">>
  /\ status = 0
  /\ fdogJobs = {} /\ pending = {} /\ warnings = {}
  /\ ignored = {} /\ groupRefspec = EmptyMap /\ missing = {}
  /\ crashAt = ""
  /\ pre = EmptyFs
  /\ scen = "none" /\ snap = EmptyFs.tables
  /\ fasJobs = {} /\ fasState = EmptyMap /\ groupRefSpec = EmptyMap
  /\ cutPending = {} /\ lost = {}
  /\ outTmp = {} /\ scoreDir = {} /\ cutFiles = EmptyMap /\ NoPairs /\ archiveOk = TRUE
  /\ argsCpus \in 0..(MaxCpus + 1) /\ cpu_count \in 1..MaxCpus
  /\ cpus = argsCpus /\ pools = {}
  /\ DefaultQuery

SpecCpus == InitCpus /\ [][NextStages]_vars

\* The search on any query file name, with or without --taxid, on the default
\* core set with every tool but fdog.addTaxon succeeding, invoked without
\* --force and --keep.
Names == UNION {[1..n -> Chars] : n \in 1..MaxNameLen}
TaxIds == {0, 7}

InitQuery ==
  /\ core = DefaultCore
  /\ fdogOutcome = [g \in Groups |-> "ok"]
  /\ coOrtho = DefaultOrtho
  /\ failing = {}
  /\ fs = EmptyFs
  /\ pc = "idle"
  /\ runs = 0
  /\ force = FALSE /\ keep = FALSE /\ refspecList = <<"">>
  /\ status = 0
  /\ fdogJobs = {} /\ pending = {} /\ warnings = {}
  /\ ignored = {} /\ groupRefspec = EmptyMap /\ missing = {}
  /\ crashAt = ""
  /\ pre = EmptyFs
  /\ scen = "none" /\ snap = EmptyFs.tables
  /\ NoCutoff
  /\ argsCpus = DefaultCpus /\ cpu_count = DefaultCpuCount
  /\ cpus = argsCpus /\ pools = {}
  /\ query \in Names /\ taxid \in TaxIds /\ addTaxonOk \in BOOLEAN
  /\ queryID = <<>> /\ genomeDir = FALSE

NextQuery ==
  \/ Start(FALSE, FALSE, <<"A", "B">>)
  \/ CheckResult
  \/ PrepareJob
  \/ \E j \in pending : RunFdog(j)
  \/ WriteLists
  \/ Pass1
  \/ Pass2
  \/ Pass3
  \/ Finish
  \/ Archive
  \/ Cleanup
  \/ Return

SpecQuery == InitQuery /\ [][NextQuery]_vars

\* The two job builders as functions of their inputs: applied to any core
\* set, any preference list and any raw results already under fdogOutput
InitPrepare ==
  /\ core \in Cores
  /\ fdogOutcome = [g \in Groups |-> "ok"]
  /\ coOrtho = DefaultOrtho
  /\ failing = {}
  /\ \E raw \in [Species -> [Groups -> {"none", "ok"}]] :
       fs = [EmptyFs EXCEPT !.tree = TRUE,
                            !.fdog = [NoDir EXCEPT !.ex = TRUE, !.raw = raw,
                                                   !.order = SelectSeq(AllDirs, LAMBDA x : raw[x[1]][x[2]] = "ok")]]
  /\ pc = "prepare"
  /\ runs = 1
  /\ force \in BOOLEAN /\ keep = FALSE /\ refspecList \in PrefLists
  /\ status = 0
  /\ fdogJobs = {} /\ pending = {} /\ warnings = {}
  /\ ignored = {} /\ groupRefspec = EmptyMap /\ missing = {}
  /\ crashAt = ""
  /\ pre = fs
  /\ scen = "none" /\ snap = EmptyFs.tables
  /\ cpc = "prepare"
  /\ fasJobs = {} /\ fasState = EmptyMap /\ groupRefSpec = EmptyMap
  /\ cutPending = {} /\ lost = {}
  /\ outTmp = {} /\ scoreDir = {} /\ cutFiles = EmptyMap /\ NoPairs /\ archiveOk = TRUE
  /\ argsCpus = DefaultCpus /\ cpu_count = DefaultCpuCount
  /\ cpus = clampCpus(argsCpus, cpu_count) /\ pools = {}
  /\ ParsedQuery

NextPrepare == PrepareJob \/ CutPrepare

SpecPrepare == InitPrepare /\ [][NextPrepare]_vars

\* The three passes as functions of the tree they find: the tree a fresh run
\* has when its pool is done and its lists are written, or (resumed) the
\* tree of a run that takes the resume path, which is what an earlier
\* complete run archived, with the aggregated tables deleted, after
\* unpacking.  Only the resumed tree can hold <coreSet>_<approach>.phyloprofile
\* files (named): a fresh run has removed the tree.  The core groups' score
\* tables are arbitrary.
RECURSIVE RunAll(_, _, _)
RunAll(jobs, outcome, f) ==
  IF jobs = {} THEN f
  ELSE LET j == CHOOSE x \in jobs : TRUE
       IN RunAll(jobs \ {j}, outcome, runFdog(j, outcome[j.groupID], f, {}).fs)

InitPass ==
  /\ \E t \in [Species -> TsvStates] :
       core = [DefaultCore EXCEPT !.tsv["g1"] = t]
  /\ fdogOutcome \in [Groups -> Outcomes]
  /\ coOrtho = DefaultOrtho
  /\ failing = {}
  /\ refspecList \in RunPrefLists
  /\ keep = FALSE
  /\ runs = 1
  /\ LET pj == prepareJob(core, refspecList, NoDir, FALSE)
         pool == RunAll(pj.fdogJobs, fdogOutcome, EmptyFs)
         lists == [pool EXCEPT
                     !.ignoredTxt = IF pj.ignored # {} THEN File(pj.ignored) ELSE @,
                     !.refspecTxt = IF DOMAIN pj.groupRefspec # {}
                                      THEN [ex |-> TRUE, map |-> pj.groupRefspec] ELSE @]
     IN /\ pool.tree
        /\ \/ /\ force \in BOOLEAN /\ status = 0
              /\ fs = lists
              /\ groupRefspec = pj.groupRefspec /\ ignored = pj.ignored
              /\ fdogJobs = pj.fdogJobs
           \/ \E p1 \in {calcFAS(lists, core, FALSE, 0, failing, coOrtho)} :
              \E p2 \in {calcFASall(p1.fs, core, FALSE, 0, failing, pj.groupRefspec, coOrtho)} :
              \E p3 \in {calcFAScons(p2.fs, core, FALSE, 0, failing, coOrtho, BatchOrder,
                                    clampCpus(DefaultCpus, DefaultCpuCount))} :
              \E nm \in SUBSET Approaches :
                /\ ~p1.crash /\ ~p2.crash /\ ~p3.crash
                /\ force = FALSE /\ status = 1
                /\ fs = [p3.fs EXCEPT
                           !.tmp = FALSE, !.tables = EmptyFs.tables, !.named = nm,
                           !.archive = make_archive(p3.fs.fdog),
                           !.fdog = unpack_archive(make_archive(p3.fs.fdog), p3.fs.fdog)]
                /\ groupRefspec = EmptyMap /\ ignored = {} /\ fdogJobs = {}
  /\ pc = "pass1"
  /\ pending = {} /\ warnings = {} /\ missing = {}
  /\ crashAt = ""
  /\ pre = fs
  /\ scen = "none" /\ snap = EmptyFs.tables
  /\ NoCutoff
  /\ argsCpus = DefaultCpus /\ cpu_count = DefaultCpuCount
  /\ cpus = clampCpus(argsCpus, cpu_count)
  /\ pools = IF status = 0 THEN {cpus} ELSE {}
  /\ ParsedQuery

NextPass == Pass1 \/ Pass2 \/ Pass3

SpecPass == InitPass /\ [][NextPass]_vars

\* The all-members pass as a function of the raw results it finds: any result
\* directories under any reference species, created in any order, any
\* number of query orthologs in a group's result, the merged file absent or
\* left by an earlier run.
DirOrders(raw) ==
  LET P == {x \in Species \X Groups : raw[x[1]][x[2]] # "none"}
  IN {q \in [1..Cardinality(P) -> P] : \A x \in P : \E i \in DOMAIN q : q[i] = x}

InitMerge ==
  /\ core = DefaultCore
  /\ fdogOutcome = [g \in Groups |-> "ok"]
  /\ coOrtho \in [Groups -> 1..MaxSeqs]
  /\ failing = {}
  /\ \E raw \in [Species -> [Groups -> Outcomes]] : \E order \in DirOrders(raw) :
     \E old \in BOOLEAN :
       fs = [EmptyFs EXCEPT !.tree = TRUE,
                            !.fdog = [NoDir EXCEPT !.ex = TRUE, !.raw = raw, !.order = order,
                                                   !.allFa = IF old THEN File({}) ELSE NoFile]]
  /\ pc = "pass2"
  /\ runs = 1
  /\ force \in BOOLEAN /\ keep = FALSE /\ refspecList = <<"A", "B">>
  /\ status = 0
  /\ fdogJobs = {} /\ pending = {} /\ warnings = {}
  /\ ignored = {} /\ groupRefspec \in [Groups -> Species] /\ missing = {}
  /\ crashAt = ""
  /\ pre = fs
  /\ scen = "none" /\ snap = EmptyFs.tables
  /\ NoCutoff
  /\ argsCpus = DefaultCpus /\ cpu_count = DefaultCpuCount
  /\ cpus = clampCpus(argsCpus, cpu_count) /\ pools = {cpus}
  /\ ParsedQuery

NextMerge == Pass2

SpecMerge == InitMerge /\ [][NextMerge]_vars

\* searchOrtho with every tool succeeding, where archiving works or fails
InitArchive ==
  /\ core = DefaultCore
  /\ fdogOutcome \in [Groups -> Outcomes]
  /\ coOrtho = DefaultOrtho
  /\ failing = {}
  /\ fs = EmptyFs
  /\ pc = "idle"
  /\ runs = 0
  /\ force = FALSE /\ keep = FALSE /\ refspecList = <<"">>
  /\ status = 0
  /\ fdogJobs = {} /\ pending = {} /\ warnings = {}
  /\ ignored = {} /\ groupRefspec = EmptyMap /\ missing = {}
  /\ crashAt = ""
  /\ pre = EmptyFs
  /\ scen = "none" /\ snap = EmptyFs.tables
  /\ cpc = "off"
  /\ fasJobs = {} /\ fasState = EmptyMap /\ groupRefSpec = EmptyMap
  /\ cutPending = {} /\ lost = {}
  /\ outTmp = {} /\ scoreDir = {} /\ cutFiles = EmptyMap /\ NoPairs
  /\ archiveOk \in BOOLEAN
  /\ argsCpus = DefaultCpus /\ cpu_count = DefaultCpuCount
  /\ cpus = argsCpus /\ pools = {}
  /\ DefaultQuery

SpecArchive == InitArchive /\ [][Next]_vars

\* calcCutoff is run on a core set that holds the sequences only, and then
\* searchOrtho on the core set it has processed
RawCore == [CoreOf(EverySeqs, {}) EXCEPT
              !.tsv = [g \in Groups |-> [s \in Species |-> "absent"]],
              !.cutoff = [g \in Groups |-> [x \in FasSubdirs |-> <<>>]]]

InitConsume ==
  /\ core = RawCore
  /\ fdogOutcome \in [Groups -> Outcomes]
  /\ coOrtho = DefaultOrtho
  /\ failing = {}
  /\ fs = EmptyFs
  /\ pc = "off"
  /\ runs = 0
  /\ force = FALSE /\ keep = FALSE /\ refspecList = <<"">>
  /\ status = 0
  /\ fdogJobs = {} /\ pending = {} /\ warnings = {}
  /\ ignored = {} /\ groupRefspec = EmptyMap /\ missing = {}
  /\ crashAt = ""
  /\ pre = EmptyFs
  /\ scen = "none" /\ snap = EmptyFs.tables
  /\ cpc = "prepare"
  /\ fasJobs = {} /\ fasState = EmptyMap /\ groupRefSpec = EmptyMap
  /\ cutPending = {} /\ lost = {}
  /\ outTmp = {} /\ scoreDir = {} /\ cutFiles = EmptyMap /\ NoPairs /\ archiveOk = TRUE
  /\ argsCpus = DefaultCpus /\ cpu_count = DefaultCpuCount
  /\ cpus = argsCpus /\ pools = {}
  /\ DefaultQuery

\* calcCutoff has ended without error: searchOrtho can be invoked
Consume ==
  /\ cpc = "done" /\ pc = "off"
  /\ pc' = "idle"
  /\ UNCHANGED <<env, par, cutoff, fs, runs, force, keep, refspecList, status, fdogJobs,
                 pending, warnings, ignored, groupRefspec, missing, crashAt, pre, scen, snap>>

NextConsume == NextCutoff \/ Consume \/ Next

SpecConsume == InitConsume /\ [][NextConsume]_vars

\* ----------------------------------------------------------- getGroupPairs
\* scoreDict is fasScores['all'] of a group: for each species s of the group
\* (order: the keys as inserted) the species q its score table <s>.tsv has
\* lines for (inner[s]: as inserted) and the scores of s against q
\* (sc[s][q], a list).  A value of the result is kept as the two scores it
\* is the mean of, with the pair it was computed for.
RECURSIVE pairLoop(_, _, _)
pairLoop(todo, sc, donePair) ==
  IF todo = <<>> THEN <<>>
  ELSE LET s == Head(todo)[1]
           q == Head(todo)[2]
       IN IF (s \o <<"_">> \o q) \in donePair \/ (q \o <<"_">> \o s) \in donePair
            THEN pairLoop(Tail(todo), sc, donePair)
            ELSE <<[pair |-> {s, q}, mean |-> <<sc[s][q][1], sc[q][s][1]>>]>>
                   \o pairLoop(Tail(todo), sc, donePair \cup {s \o <<"_">> \o q})

\* for s in scoreDict: for q in scoreDict[s]
RECURSIVE PairScan(_, _)
PairScan(order, inner) ==
  IF order = <<>> THEN <<>>
  ELSE [i \in DOMAIN inner[Head(order)] |-> <<Head(order), inner[Head(order)][i]>>]
         \o PairScan(Tail(order), inner)

getGroupPairs(sd) == pairLoop(PairScan(sd.order, sd.inner), sd.sc, {})

GetGroupPairs ==
  /\ ~groupPair.done /\ scoreDict # NoScores
  /\ groupPair' = [done |-> TRUE, out |-> getGroupPairs(scoreDict)]
  /\ UNCHANGED <<core, fdogOutcome, coOrtho, failing, argsCpus, cpu_count, query, taxid,
                 addTaxonOk, archiveOk, scoreDict, par, search, cutoff, force, crashAt>>

\* species identifiers, made of a letter, a digit and the underscore
SpeciesIDs == {<<"a">>, <<"7">>, <<"a", "7">>, <<"a", "_", "7">>, <<"7", "_", "a">>}
Perms(S) == {q \in [1..Cardinality(S) -> S] : \A x \in S : \E i \in DOMAIN q : q[i] = x}

\* getGroupPairs applied to the complete score table of any group of two or
\* three species: every species has one score against every other, and the
\* keys are in any order
InitPairs ==
  /\ core = DefaultCore
  /\ fdogOutcome = [g \in Groups |-> "ok"]
  /\ coOrtho = DefaultOrtho
  /\ failing = {}
  /\ fs = EmptyFs
  /\ pc = "off"
  /\ runs = 0
  /\ force = FALSE /\ keep = FALSE /\ refspecList = <<"">>
  /\ status = 0
  /\ fdogJobs = {} /\ pending = {} /\ warnings = {}
  /\ ignored = {} /\ groupRefspec = EmptyMap /\ missing = {}
  /\ crashAt = ""
  /\ pre = EmptyFs
  /\ scen = "none" /\ snap = EmptyFs.tables
  /\ cpc = "off"
  /\ fasJobs = {} /\ fasState = EmptyMap /\ groupRefSpec = EmptyMap
  /\ cutPending = {} /\ lost = {}
  /\ outTmp = {} /\ scoreDir = {} /\ cutFiles = EmptyMap /\ archiveOk = TRUE
  /\ argsCpus = DefaultCpus /\ cpu_count = DefaultCpuCount
  /\ cpus = argsCpus /\ pools = {}
  /\ DefaultQuery
  /\ \E S \in {T \in SUBSET SpeciesIDs : Cardinality(T) \in {2, 3}} :
     \E order \in Perms(S) :
     \E inner \in [S -> Perms(S)] :
     \E sc \in [S -> [S -> 0..MaxScore]] :
       /\ \A s \in S : sc[s][s] = 0
       /\ scoreDict = [order |-> order,
                       inner |-> [s \in S |-> SelectSeq(inner[s], LAMBDA q : q # s)],
                       sc |-> [s \in S |-> [q \in S \ {s} |-> <<sc[s][q]>>]]]
  /\ groupPair = [done |-> FALSE, out |-> <<>>]

NextPairs == GetGroupPairs

SpecPairs == InitPairs /\ [][NextPairs]_vars

\* ----------------------------------------------------------------- claims
\* checkResult has returned in this invocation
Checked ==
  pc \in {"prepare", "unpack", "pool", "pass1", "pass2", "pass3", "finish",
          "archive", "cleanup", "done"}

OldRows(T) == {row \in UNION {T[t].rows : t \in TableNames} : row.run # runs}

Content(T) ==
  [t \in TableNames |->
     [ex |-> T[t].ex, rows |-> {<<row.g, row.kind, row.sp, row.o, row.occ, row.rev>> : row \in T[t].rows}]]

\* C1: the run state is decided by the force flag, the existence of
\* phyloprofileOutput/mode1.phyloprofile and the existence of
\* fdogOutput.tar.gz at the start of the run, in this order: force gives
\* Fresh (0); else the final table gives Skip (2); else the archive gives
\* Resume (1); else Fresh (0).
C1_Precedence ==
  Checked =>
    status = IF force THEN 0
             ELSE IF pre.tables["mode1"].ex THEN 2
             ELSE IF pre.archive.ex THEN 1 ELSE 0

C1_Witness ==
  /\ Checked /\ force /\ status = 0
  /\ pre.tables["mode1"].ex /\ pre.archive.ex

\* C2: once a run has completed and produced the aggregated tables, further
\* runs without force leave every aggregated table as it is (rows and the
\* run that wrote them), run no search job and enter no aggregation pass.
C2_Idempotent ==
  scen = "completed" =>
    /\ fs.tables = snap
    /\ pc # "idle" =>
         /\ ~force /\ fdogJobs = {}
         /\ pc \in {"check", "archive", "cleanup", "done"}
         /\ Checked => status = 2

C2_Witness ==
  /\ scen = "completed" /\ pc = "done" /\ runs = 2 /\ status = 2
  /\ \A t \in TableNames : fs.tables[t].rows # {}

\* C3: in a forced run, once checkResult has returned, no aggregated table
\* holds a row of an earlier run, and when the run is done every aggregated
\* table exists and holds rows of this run only.
C3_ForceReplaces ==
  (force /\ Checked) =>
    /\ OldRows(fs.tables) = {}
    /\ pc = "done" => \A t \in TableNames : fs.tables[t].ex

C3_Witness ==
  /\ force /\ pc = "done"
  /\ \A t \in TableNames : pre.tables[t].rows # {} /\ fs.tables[t].rows # {}

C5_RawKept ==
  (Checked /\ pc \notin {"cleanup", "done"} /\ ~force /\ ~pre.tables["mode1"].ex) =>
    \A r \in Species, g \in Groups :
      pre.fdog.raw[r][g] = "ok" => fs.fdog.raw[r][g] = "ok"

\* C6: with no tool failing, a run without force that starts with the tables
\* of the all-members pass complete (mode1.phyloprofile, FAS.domains) and
\* mode4.phyloprofile absent has written mode4.phyloprofile when it is done.
C6_PassesResumable ==
  (/\ pc = "done" /\ ~force /\ failing = {}
   /\ pre.tables["mode1"].ex /\ pre.tables["domain"].ex /\ ~pre.tables["mode4"].ex) =>
    fs.tables["mode4"].ex

C8_MissingListed ==
  (pc = "archive" /\ status # 2) =>
    \A g \in DOMAIN groupRefspec :
      fs.fdog.raw[groupRefspec[g]][g] # "ok" =>
        fs.missingTxt.ex /\ g \in fs.missingTxt.rows

\* C9: after prepareJob, every group directory is either mapped to the first
\* element of the preference list that is a member species, or, exactly when
\* no element is a member species, ignored; an ignored group has no job and
\* no entry in the mapping.
C9_FirstPreferred ==
  pc = "pool" =>
    \A g \in DOMAIN core.members :
      LET hits == {i \in 1..Len(refspecList) : refspecList[i] \in core.members[g]}
      IN IF hits = {}
           THEN /\ g \in ignored /\ g \notin DOMAIN groupRefspec
                /\ \A j \in fdogJobs : j.groupID # g
           ELSE /\ g \notin ignored /\ g \in DOMAIN groupRefspec
                /\ \E i \in hits : /\ \A k \in hits : i <= k
                                   /\ groupRefspec[g] = refspecList[i]

C9_Witness ==
  /\ pc = "pool"
  /\ ignored # {}
  /\ \E g \in DOMAIN groupRefspec :
       /\ Len(refspecList) = 2 /\ groupRefspec[g] = refspecList[2]
       /\ refspecList[1] # "" /\ refspecList[1] # refspecList[2]

\* C10: after prepareJob, every group with a member species in the
\* preference list is in the mapping, and has a job, for its mapped species,
\* exactly when force is set or <outPath>/<group>/<group>.phyloprofile does
\* not exist under that species.
C10_JobIffNeeded ==
  pc = "pool" =>
    \A g \in DOMAIN core.members :
      (\E i \in 1..Len(refspecList) : refspecList[i] \in core.members[g]) =>
        /\ g \in DOMAIN groupRefspec
        /\ (\E j \in fdogJobs : j.groupID = g)
             <=> (force \/ fs.fdog.raw[groupRefspec[g]][g] # "ok")
        /\ \A j \in fdogJobs : j.groupID = g => j.refspec = groupRefspec[g]

C10_Witness ==
  /\ pc = "pool" /\ ~force
  /\ \E g \in DOMAIN groupRefspec :
       /\ fs.fdog.raw[groupRefspec[g]][g] = "ok"
       /\ \A j \in fdogJobs : j.groupID # g
  /\ \E g \in DOMAIN groupRefspec, r \in Species :
       /\ r # groupRefspec[g] /\ fs.fdog.raw[r][g] = "ok"
       /\ \E j \in fdogJobs : j.groupID = g

\* C11: a run that took the fresh path and whose job builder emitted no job
\* (for example every group is ignored) does not end with an unhandled
\* error: it reaches the end with ignored.txt written and the aggregated
\* tables present.
C11_ZeroJobsCompletes ==
  (/\ status = 0 /\ fdogJobs = {}
   /\ pc \in {"pass1", "pass2", "pass3", "finish", "archive", "cleanup", "done", "crashed"}
   /\ crashAt # "prepare") =>
    /\ pc # "crashed"
    /\ ignored # {} => fs.ignoredTxt.ex

\* C12: in each of the tables mode1, length, mode23 and mode4 no two lines
\* written by one run have the same key (groupID, ncbiID, orthoID).
Key(row) == <<row.g, row.kind, row.sp, row.o>>

C12_UniqueKeys ==
  \A t \in {"mode1", "length", "mode23", "mode4"} :
    \A a, b \in fs.tables[t].rows :
      (a.run = b.run /\ Key(a) = Key(b)) => a = b

\* C13: in the reference-pairwise pass that writes its table, for every core
\* line whose reverse score cannot be found (the reverse table <refspec>.tsv
\* has no line for the pair, or does not exist) the pass does not fail and
\* the line is in mode23.phyloprofile with reverse score 0.
C13_ReverseDefault ==
  (pc \in {"pass2", "crashed"} /\ ~("other" \in pre.named /\ ~force)) =>
    \A r \in RefDirs(pre.fdog) : \A g \in DOMAIN core.members :
      \A s \in core.members[g] \ {r} :
        (/\ pre.fdog.raw[r][g] # "none"
         /\ core.tsv[g][s] = "ok" /\ core.tsv[g][r] # "ok") =>
          /\ pc # "crashed"
          /\ \E row \in fs.tables["mode23"].rows :
               /\ row.g = g /\ row.kind = "core" /\ row.sp = s
               /\ row.rev = "0" /\ row.run = runs

\* C14: in every step, a pass is entered only from the stage before it: the
\* reference-pairwise pass from the pool with every search job done (or from
\* unpacking), the all-members pass from the reference-pairwise pass, the
\* consensus pass from the all-members pass, and the end of the passes from
\* the consensus pass; no search job runs once the passes have begun; in
\* calcCutoff the cutoff jobs are built and run only when every scoring job
\* is done, and no scoring job runs afterwards.
C14_Step ==
  /\ (pc' = "pass1" /\ pc # "pass1") => (pc \in {"pool", "unpack"} /\ pending = {})
  /\ (pc' = "pass2" /\ pc # "pass2") => pc = "pass1"
  /\ (pc' = "pass3" /\ pc # "pass3") => pc = "pass2"
  /\ (pc' = "finish" /\ pc # "finish") => pc = "pass3"
  /\ pc \in {"pass1", "pass2", "pass3"} => (pending = {} /\ pending' = {})
  /\ (cutPending' # cutPending \/ scoreDir' # scoreDir \/ lost' # lost) =>
       \A j \in fasJobs : fasState[j] = "done"
  /\ cpc = "cutoff" => (fasState' = fasState /\ outTmp' = outTmp)

C14_StageOrder == [][C14_Step]_vars

C14_Witness ==
  /\ cpc = "done" /\ scoreDir = Groups
  /\ \E j, k \in fasJobs : j.groupID # k.groupID

\* C15: in the batch of search jobs and in the batch of calcCutoff's scoring
\* jobs, no two job descriptors name the same output: no two search jobs
\* have the same result directory fdogOutput/<refspec>/<group>, and no two
\* scoring jobs the same file outTmp/<refSpec>.tsv of the same group.
C15_DistinctOutputs ==
  /\ \A j, k \in fdogJobs :
       (j.groupID = k.groupID /\ j.refspec = k.refspec) => j = k
  /\ \A j, k \in fasJobs : OutTsv(j) = OutTsv(k) => j = k

\* C16: the lines of every aggregated table are in the order of the job
\* batch, which is the order they have when the jobs complete in the order
\* of the batch: the order of the lines does not depend on the order in
\* which the jobs of the pools complete.
C16_OrderIndependent ==
  \A t \in {"mode23", "mode1", "length", "mode4"} :
    \A a, b \in fs.tables[t].rows :
      (a.run = b.run /\ PosIn(BatchOrder, a.g) < PosIn(BatchOrder, b.g)) => a.at < b.at

\* C17: every process count given to a pool is the --cpus argument when that
\* is below cpu_count and cpu_count - 1 otherwise, and is never above
\* cpu_count - 1.
C17_WorkerCount ==
  \A p \in pools :
    /\ p = IF argsCpus < cpu_count THEN argsCpus ELSE cpu_count - 1
    /\ p <= cpu_count - 1

C17_Witness ==
  /\ argsCpus = cpu_count /\ cpu_count > 1
  /\ pools = {cpu_count - 1}
  /\ pc = "done" \/ cpc = "done"

\* C18: once a job builder has run on a core-set directory that holds no
\* group directory (it is empty, or holds only entries that are not
\* directories), its program has stopped with the fatal error and no job has
\* been emitted; this holds for the search and for the cutoff builder.
C18_NoGroupsFatal ==
  DOMAIN core.members = {} =>
    /\ pc # "prepare" => /\ pc = "crashed" /\ crashAt = "prepare"
                         /\ fdogJobs = {}
    /\ cpc # "prepare" => /\ cpc = "crashed" /\ crashAt = "prepare"
                          /\ fasJobs = {} /\ DOMAIN groupRefSpec = {}

\* C19: in every state of a run, with id the part of the query file's name
\* before its first '.', (a) the run goes on with id as its query ID exactly
\* when id has three @-delimited fields and the middle one is numeric (an
\* optional sign and decimal digits); (b) when id is not of that form and
\* --taxid is 0 the run has stopped with the format error, the output tree
\* is as the run found it, genome_dir has not been made, and no job and no
\* pool exists; (c) when id is of that form, the ncbiID column of the
\* query's lines in the tables is its middle field.
C19_QueryID ==
  pc \notin {"idle", "off"} =>
    LET path == split(query, "/")
        id == split(path[Len(path)], ".")[1]
        fields == split(id, "@")
        mid == IF Len(fields) = 3 /\ fields[2] # <<>> /\ fields[2][1] \in Signs
                 THEN Tail(fields[2]) ELSE fields[2]
        composite == /\ Len(fields) = 3 /\ mid # <<>>
                     /\ \A i \in 1..Len(mid) : mid[i] \in Digits
        stopped == pc = "crashed" /\ crashAt \in {"format", "addTaxon"}
    IN /\ (~stopped /\ queryID = id) <=> composite
       /\ (~composite /\ taxid = 0) =>
            /\ pc = "crashed" /\ crashAt = "format"
            /\ fs = pre /\ ~genomeDir
            /\ fdogJobs = {} /\ pools = {}
       /\ (composite /\ \E t \in {"mode1", "mode4"} :
                          \E row \in fs.tables[t].rows : row.kind = "q") =>
            ncbiID(queryID) = fields[2]

\* C20: a pass whose output mode is 0 (its <coreSet>_<approach>.phyloprofile
\* exists and force is not set) leaves every aggregated table as it is, runs
\* no external tool (the search results with their merged files and tool
\* outputs, the tmp directory and the pools are as before) and returns to
\* the driver, which goes on with the next stage; for each of the three
\* passes.
C20_Step ==
  LET skip(approach) == outputMode(fs, force, approach).mode = 0
      idle == /\ fs'.tables = fs.tables /\ fs'.fdog = fs.fdog
              /\ fs'.tmp = fs.tmp /\ pools' = pools
  IN /\ (pc = "pass1" /\ pc' # "idle" /\ skip("other")) => (idle /\ pc' = "pass2")
     /\ (pc = "pass2" /\ pc' # "idle" /\ skip("mode1")) => (idle /\ pc' = "pass3")
     /\ (pc = "pass3" /\ pc' # "idle" /\ skip("other")) => (idle /\ pc' = "finish")

C20_SkipDoesNothing == [][C20_Step]_vars

\* C21: a run in which an external tool of the aggregation passes exits
\* non-zero (fdogFAS in the reference-pairwise or the all-members pass,
\* annoFAS or calcFAS in the consensus pass) and whose passes find the raw
\* results does not end with an unhandled error in a pass.
C21_ToolFailureRecovered ==
  (failing # {} /\ pc = "crashed" /\ fs.fdog.ex) =>
    crashAt \notin {"pass1", "pass2", "pass3"}

\* C22: in a run that took the fresh path (forced or not), once the lists are
\* written the mapping in use maps exactly the groups with a member species
\* in this run's preference list, each to the first such list element, and
\* last_refspec.txt holds it; in a run that resumes from the archive the
\* mapping in use during the passes is the persisted one, under which every
\* raw result of the archive was produced; a run that skips loads none.
C22_Mapping ==
  LET past1 == {"pass2", "pass3", "finish", "archive", "cleanup", "done"}
      hits(g) == {i \in 1..Len(refspecList) : refspecList[i] \in core.members[g]}
  IN /\ (status = 0 /\ pc \in past1 \cup {"pass1"}) =>
          /\ DOMAIN groupRefspec = {g \in DOMAIN core.members : hits(g) # {}}
          /\ \A g \in DOMAIN groupRefspec :
               \E i \in hits(g) : /\ \A k \in hits(g) : i <= k
                                  /\ groupRefspec[g] = refspecList[i]
          /\ IF DOMAIN groupRefspec # {}
               THEN fs.refspecTxt.ex /\ fs.refspecTxt.map = groupRefspec
               ELSE ~fs.refspecTxt.ex
     /\ (status = 1 /\ pc \in past1) =>
          /\ pre.refspecTxt.ex /\ groupRefspec = pre.refspecTxt.map
          /\ fs.refspecTxt = pre.refspecTxt
          /\ \A r \in Species, g \in Groups :
               pre.archive.raw[r][g] # "none" =>
                 g \in DOMAIN groupRefspec /\ groupRefspec[g] = r
     /\ (status = 2 /\ Checked) => DOMAIN groupRefspec = {}

\* a resumed run, invoked with another preference list, is done and has used
\* the persisted mapping, which this run's list would not give
C22_Witness ==
  /\ status = 1 /\ pc = "done"
  /\ \E g \in DOMAIN groupRefspec :
       groupRefspec[g] # checkRefspec(refspecList, core.members[g])

\* C23: when the all-members pass has written the merged sequence file, the
\* i-th query ortholog of a group in the file, counted over all reference
\* species' directories, carries the tag i (so the tags of a group start at
\* 1, go up by 1 and never repeat), every query ortholog of every result is
\* in the file, and the member sequences that follow an ortholog carry its
\* tag.
C23_Counter ==
  (pc # "pass2" /\ (force \/ ~pre.fdog.allFa.ex)) =>
    LET L == fs.fdog.allSeq
        I(g) == {i \in DOMAIN L : L[i].g = g}
    IN \A g \in Groups :
         /\ \A i \in I(g) :
              /\ L[i].tag = 1 + Cardinality({j \in I(g) : j < i})
              /\ \A m \in L[i].core : m.tag = L[i].tag
              /\ {m.sp : m \in L[i].core} = core.members[g]
         /\ Cardinality(I(g)) =
              coOrtho[g] * Cardinality({r \in Species : pre.fdog.raw[r][g] = "ok"})

\* a group has results under two reference species, the orthologs of another
\* group are written between them, and the counter goes on
C23_Witness ==
  /\ pc # "pass2"
  /\ LET L == fs.fdog.allSeq
     IN \E i, j, k \in DOMAIN L :
          /\ i < j /\ j < k
          /\ L[i].g = L[k].g /\ L[j].g # L[i].g /\ L[i].r # L[k].r
          /\ L[i].tag = MaxSeqs /\ L[k].tag = MaxSeqs + 1

\* C24: getGroupPairs returns exactly one value for each unordered pair of
\* distinct species of the score table, the mean of the two scores of the
\* pair, and nothing else, whatever the species are called.
C24_OnePerPair ==
  groupPair.done =>
    LET S == DOMAIN scoreDict.sc
        out == groupPair.out
    IN /\ \A s \in S : \A q \in S \ {s} :
            Cardinality({i \in DOMAIN out : out[i].pair = {s, q}}) = 1
       /\ \A i \in DOMAIN out :
            \E s \in S : \E q \in S \ {s} :
              /\ out[i].pair = {s, q}
              /\ out[i].mean = <<scoreDict.sc[s][q][1], scoreDict.sc[q][s][1]>>

\* C25: the cutoff job of a group with fewer than two member sequences, once
\* it has run, has ended with an error (an exception that ends the program,
\* or the worker's exit), the group's cutoff record is not complete, and
\* its 1.cutoff, if written at all, has no stdevLen line.
C25_FewSequences ==
  \A e \in DOMAIN core.members :
    NumSeqs(core.seqs[e], Species) < 2 =>
      /\ e \notin scoreDir
      /\ e \in DOMAIN cutFiles =>
           \A i \in DOMAIN cutFiles[e].one : cutFiles[e].one[i] # "stdevLen"
      /\ (e \in DOMAIN groupRefSpec /\ e \notin cutPending
            /\ (cpc \in {"cutoff", "done"} \/ (cpc = "crashed" /\ crashAt = "cutoff"))) =>
           (cpc = "crashed" \/ e \in lost)

\* the job of a group with one sequence has run, with the score file of its
\* species present, and has ended the program; its 1.cutoff has the header
C25_Witness ==
  \E e \in DOMAIN core.members :
    /\ NumSeqs(core.seqs[e], Species) = 1
    /\ cpc = "crashed" /\ crashAt = "cutoff"
    /\ e \in DOMAIN cutFiles /\ cutFiles[e].one = <<"label">>
    /\ cutPending = DOMAIN groupRefSpec \ {e}

\* C26: the clean-up of a run removes fdogOutput only if fdogOutput.tar.gz
\* then holds a complete archive of it: after the step, the directory or
\* the archive of what it held exists.
C26_Step ==
  (pc = "cleanup" /\ pc' = "done" /\ fs.fdog.ex) =>
    \/ fs'.fdog.ex
    \/ fs'.archive.ex /\ fs'.archive = make_archive(fs.fdog)
C26_RemovedOnlyIfArchived == [][C26_Step]_vars

\* C27: in every step of every sequence of runs <coreSet>_<approach>.phyloprofile
\* does not exist for either approach, outputMode gives mode 3, and a pass
\* that is entered leaves the tables it opens holding lines of this run only.
C27_Step ==
  LET entered(p) == pc = p /\ (pc' \notin {p, "idle"})
      fresh(t) == fs'.tables[t].ex /\ \A row \in fs'.tables[t].rows : row.run = runs
  IN /\ fs.named = {} /\ fs'.named = {}
     /\ \A a \in Approaches : outputMode(fs, force, a).mode = 3
     /\ entered("pass1") => fresh("mode23")
     /\ entered("pass2") => fresh("mode1") /\ fresh("length")
     /\ entered("pass3") => fresh("mode4")
C27_AlwaysFresh == [][C27_Step]_vars

\* a resumed run has gone through its three passes
C27_Witness ==
  /\ status = 1 /\ pc = "finish"
  /\ \A t \in {"mode23", "mode1", "length", "mode4"} : fs.tables[t].rows # {}

\* C28: the step of checkResult leaves the file system as it was when it
\* returns 1 or 2; when it returns 0 the query's output tree is absent
\* afterwards, with its aggregated tables, archive, raw results and lists.
C28_Step ==
  pc = "check" /\ pc' # "idle" =>
    /\ status' \in {1, 2} => fs' = fs
    /\ status' = 0 =>
         /\ ~fs'.tree /\ ~fs'.ppDir /\ ~fs'.tmp /\ ~fs'.fdog.ex /\ ~fs'.archive.ex
         /\ \A t \in TableNames : ~fs'.tables[t].ex
         /\ ~fs'.refspecTxt.ex /\ ~fs'.ignoredTxt.ex /\ ~fs'.missingTxt.ex
    /\ fs' # fs => status' = 0 /\ fs.tree
C28_RemovesIffFresh == [][C28_Step]_vars

\* checkResult has returned 0 without --force and has removed a tree that
\* held lists and a table but neither the final table nor an archive
C28_Witness ==
  /\ pc = "prepare" /\ status = 0 /\ ~force
  /\ pre.tree /\ pre.refspecTxt.ex /\ pre.tables["mode23"].ex
  /\ fs = EmptyFs

\* C29: a search on a core set that calcCutoff has processed does not end in
\* the all-members pass: the cutoff table the pass reads for a group is
\* there, with the column it takes.
C29_Consumable ==
  (cpc = "done" /\ pc = "crashed") => crashAt # "pass2"

\* C30: for a requested count of at least 1, on any machine, every process
\* count given to a pool is at least 1 and no run ends at the creation of a
\* pool.
C30_AtLeastOne ==
  argsCpus >= 1 =>
    /\ \A p \in pools : p >= 1
    /\ crashAt # "mkpool"

\* C31: an entry of the core-set directory that is not a directory is no
\* group for either program: it has no search job, no scoring job and no
\* cutoff job (none is built for it, none is waiting), and a run on a core
\* set whose group directories all hold two species or more does not end
\* with an error in the cutoff jobs because such an entry is there.
C31_FilesAreNoGroups ==
  /\ \A j \in fdogJobs : j.groupID \notin core.files
  /\ \A j \in fasJobs : j.groupID \notin core.files
  /\ DOMAIN groupRefSpec \cap core.files = {}
  /\ cutPending \cap core.files = {}
  /\ (\A g \in DOMAIN core.members : Cardinality(core.members[g]) >= 2) =>
       ~(cpc = "crashed" /\ crashAt = "cutoff")

====
